---- MODULE Spec2Model ----
(***************************************************************************)
(* A model of the PRI container codec of pri/src/lib.rs: PriFile::read,    *)
(* PriFile::write, add_section and the section framing, over streams of    *)
(* real bytes.  A stream is a sequence of bytes; stream position p is the  *)
(* element p + 1 of the sequence.                                          *)
(***************************************************************************)
EXTENDS Integers, Sequences, FiniteSets, TLC

\* ------------------------------------------------------------------ bounds

\* Sections of the container the first input file was generated from.
MaxSections == 2
\* Fields of the input file the environment overwrites before it is read.
MaxPokes == 1
\* add_section calls on a parsed container.
MaxAdds == 1
\* write calls on a parsed container.
MaxWrites == 2
\* add_section calls of the length-only specification SpecLen (above 2^16).
MaxLen == 65537

\* --------------------------------------------------------------- constants

MRM_PRI0 == <<109, 114, 109, 95, 112, 114, 105, 48>>
MRM_PRI1 == <<109, 114, 109, 95, 112, 114, 105, 49>>
MRM_PRI2 == <<109, 114, 109, 95, 112, 114, 105, 50>>
MRM_PRIF == <<109, 114, 109, 95, 112, 114, 105, 102>>

\* The version tags PriFile::read recognises.
Versions == {MRM_PRI0, MRM_PRI1, MRM_PRI2, MRM_PRIF}

\* 0xdefffade, the marker of the file footer, as write_u32::<LE> lays it out.
FILE_FOOTER_MARKER == <<222, 250, 255, 222>>
\* 0xdef5fade, the marker of a section footer, as write_u32::<LE> lays it out.
SECTION_FOOTER_MARKER == <<222, 250, 245, 222>>
\* The fixed position of the table of contents that write emits.
TOC_OFFSET == 30

\* The identifiers of the payload kinds the dispatcher knows.
DataItem_IDENTIFIER ==
    <<91, 109, 114, 109, 95, 100, 97, 116, 97, 105, 116, 101, 109, 93, 32, 0>>
PriDescriptor_IDENTIFIER ==
    <<91, 109, 114, 109, 95, 112, 114, 105, 100, 101, 115, 99, 101, 120, 93, 0>>
ResourceMap_IDENTIFIER ==
    <<91, 109, 114, 109, 95, 114, 101, 115, 95, 109, 97, 112, 50, 95, 93, 0>>
DecisionInfo_IDENTIFIER ==
    <<91, 109, 114, 109, 95, 100, 101, 99, 110, 95, 105, 110, 102, 111, 93, 0>>
HierarchicalSchema_IDENTIFIER ==
    <<91, 109, 114, 109, 95, 104, 115, 99, 104, 101, 109, 97, 101, 120, 93, 32>>

KnownKinds ==
    {"DataItem", "PriDescriptor", "ResourceMap", "DecisionInfo", "HierarchicalSchema"}

KindIdentifier(kind) ==
    CASE kind = "DataItem" -> DataItem_IDENTIFIER
      [] kind = "PriDescriptor" -> PriDescriptor_IDENTIFIER
      [] kind = "ResourceMap" -> ResourceMap_IDENTIFIER
      [] kind = "DecisionInfo" -> DecisionInfo_IDENTIFIER
      [] kind = "HierarchicalSchema" -> HierarchicalSchema_IDENTIFIER

KnownTags == {KindIdentifier(k) : k \in KnownKinds}

\* ------------------------------------------------------------------- bytes

\* write_u16::<LE>(v as u16), write_u32::<LE>(v as u32): the low 16 (32) bits of
\* v, least significant byte first.
LE16(v) == <<v % 256, (v \div 256) % 256>>
LE32(v) ==
    <<v % 256, (v \div 256) % 256, (v \div 65536) % 256, (v \div 16777216) % 256>>

\* Whether n bytes can be read at position p of stream b (read_exact succeeds).
CanRead(b, p, n) == p >= 0 /\ p + n <= Len(b)

\* Every stream of the model is shorter than Huge (2^28) bytes.  A u32 of Huge or
\* more is read as Huge: as a position or a length it lies past the end of the
\* stream either way.  Two u32 fields are compared on their bytes.
Huge == 16777216 * 16

\* read_u16::<LE>, read_u32::<LE> and read_exact at position p.
U16(b, p) == b[p + 1] + 256 * b[p + 2]
U32(b, p) ==
    IF b[p + 4] >= 16 THEN Huge
    ELSE b[p + 1] + 256 * b[p + 2] + 65536 * b[p + 3] + 16777216 * b[p + 4]
Bytes(b, p, n) == SubSeq(b, p + 1, p + n)

Zeros(n) == [i \in 1..n |-> 0]

\* ------------------------------------------------------------------ writer

\* A seekable sink: the bytes it holds and its cursor (Cursor<&mut Vec<u8>>).
EmptySink == [buf |-> <<>>, pos |-> 0]

\* write_all at the cursor: overwrites what is there, extends the sink at its end.
Put(w, bytes) ==
    LET pre == IF w.pos <= Len(w.buf)
               THEN SubSeq(w.buf, 1, w.pos)
               ELSE w.buf \o Zeros(w.pos - Len(w.buf))
        post == SubSeq(w.buf, w.pos + Len(bytes) + 1, Len(w.buf))
    IN [buf |-> pre \o bytes \o post, pos |-> w.pos + Len(bytes)]

\* seek(SeekFrom::Start(p))
SeekTo(w, p) == [w EXCEPT !.pos = p]

\* -------------------------------------------------------- payload codecs

\* The payload of a known kind is decoded and encoded by that kind's codec,
\* which is handed the reader only, never the declared length (lib.rs:264):
\* it delimits its payload itself.  Here: one count byte, then so many bytes.
Codec_read(b, p) ==
    IF ~CanRead(b, p, 1) THEN [ok |-> FALSE, body |-> <<>>, consumed |-> 0]
    ELSE IF ~CanRead(b, p + 1, b[p + 1]) THEN [ok |-> FALSE, body |-> <<>>, consumed |-> 0]
    ELSE [ok |-> TRUE, body |-> Bytes(b, p + 1, b[p + 1]), consumed |-> 1 + b[p + 1]]

Codec_write(body) == <<Len(body)>> \o body

\* UnknownSection::read: take(length).read_to_end: up to length bytes, fewer at
\* the end of the stream.
UnknownSection_read(identifier, length, b, p) ==
    LET avail == IF p >= Len(b) THEN 0 ELSE Len(b) - p
        n == IF length <= avail THEN length ELSE avail
    IN [kind |-> "Unknown", identifier |-> identifier, data |-> Bytes(b, p, n)]

\* UnknownSection::write
UnknownSection_write(w, d) == Put(w, d.data)

\* SectionData::section_identifier
section_identifier(d) ==
    IF d.kind = "Unknown" THEN d.identifier ELSE KindIdentifier(d.kind)

\* SectionData::write
SectionData_write(w, d) ==
    IF d.kind = "Unknown" THEN UnknownSection_write(w, d) ELSE Put(w, Codec_write(d.data))

\* SectionData::read: [ok, data].  Dispatch by exact equality of the identifier.
SectionData_read(identifier, length, b, p) ==
    IF identifier \in KnownTags
    THEN LET kind == CHOOSE k \in KnownKinds : KindIdentifier(k) = identifier
             r == Codec_read(b, p)
         IN [ok |-> r.ok,
             data |-> [kind |-> kind, identifier |-> identifier, data |-> r.body]]
    ELSE [ok |-> TRUE, data |-> UnknownSection_read(identifier, length, b, p)]

\* ------------------------------------------------------------------- write

\* TocEntry::write
TocEntry_write(w, e) ==
    Put(w, e.section_identifier \o LE16(e.flags) \o LE16(e.section_flags)
           \o LE32(e.section_qualifier) \o LE32(e.section_offset)
           \o LE32(e.section_length))

\* Section::write with the envelope's fields in the order of a TOC entry
\* (flags, section_flags, qualifier).
Section_write_m(w, s) ==
    LET w1 == Put(w, section_identifier(s.data) \o LE16(s.flags) \o LE16(s.section_flags)
                     \o LE32(s.section_qualifier) \o LE32(0) \o LE32(0))
        start == w1.pos
        w2 == SectionData_write(w1, s.data)
        end == w2.pos
        section_length == (end - start) + 40
        w3 == Put(w2, SECTION_FOOTER_MARKER \o LE32(section_length))
        w4 == Put(SeekTo(w3, start - 8), LE32(section_length))
    IN SeekTo(w4, end + 8)

\* Section::write: the envelope with a placeholder length, the payload, the
\* footer, then the length patched 8 bytes before the payload.
Section_write(w, s) ==
    LET w1 == Put(w, section_identifier(s.data) \o LE32(s.section_qualifier)
                     \o LE16(s.flags) \o LE16(s.section_flags) \o LE32(0) \o LE32(0))
        start == w1.pos
        w2 == SectionData_write(w1, s.data)
        end == w2.pos
        section_length == (end - start) + 40
        w3 == Put(w2, SECTION_FOOTER_MARKER \o LE32(section_length))
        w4 == Put(SeekTo(w3, start - 8), LE32(section_length))
    IN SeekTo(w4, end + 8)

\* write emitting the tag listed last among the recognised ones.
WriteMagic_m == MRM_PRIF

\* The version tag write emits.
WriteMagic == MRM_PRI2

\* The header write emits for a container of n sections (lib.rs:77-87): 32 bytes.
Write_header(n) ==
    WriteMagic \o LE16(0) \o LE16(1) \o LE32(0) \o LE32(TOC_OFFSET)
        \o LE32(n * 32 + TOC_OFFSET) \o LE16(n) \o LE16(65535) \o LE32(0)

\* The placeholder table of contents (lib.rs:88-98).
RECURSIVE Write_toc(_, _, _)
Write_toc(w, secs, i) ==
    IF i > Len(secs) THEN w
    ELSE Write_toc(
           TocEntry_write(w, [section_identifier |-> section_identifier(secs[i].data),
                              flags |-> secs[i].flags,
                              section_flags |-> secs[i].section_flags,
                              section_qualifier |-> secs[i].section_qualifier,
                              section_offset |-> 0,
                              section_length |-> 0]),
           secs, i + 1)

\* One turn of the loop over the section bodies (lib.rs:99-109), for the section
\* of index i (from 0): the body, then the patch of its entry.
Write_section(w, secs, i) ==
    LET section_start_offset == Len(secs) * 32 + TOC_OFFSET
        start == w.pos
        w1 == Section_write(w, secs[i + 1])
        end == w1.pos
        offset == start - section_start_offset
        length == end - start
        w2 == Put(SeekTo(w1, TOC_OFFSET + 32 * i + 24), LE32(offset) \o LE32(length))
    IN SeekTo(w2, end)

\* The file footer without the patch of total_file_size in the header.
Write_footer_m(w) ==
    LET pos == w.pos
        total_file_size == pos + 16
    IN Put(w, FILE_FOOTER_MARKER \o LE32(total_file_size) \o WriteMagic)

\* The file footer and the patch of total_file_size (lib.rs:110-116).
Write_footer(w) ==
    LET pos == w.pos
        total_file_size == pos + 16
        w1 == Put(w, FILE_FOOTER_MARKER \o LE32(total_file_size)
                     \o WriteMagic)
    IN Put(SeekTo(w1, 12), LE32(total_file_size))

\* -------------------------------------------------------------------- read

\* TocEntry::read at position p.
TocEntry_read(b, p) ==
    [section_identifier |-> Bytes(b, p, 16),
     flags |-> U16(b, p + 16),
     section_flags |-> U16(b, p + 18),
     section_qualifier |-> U32(b, p + 20),
     section_offset |-> U32(b, p + 24),
     section_length |-> U32(b, p + 28)]

NoHeader ==
    [version |-> <<>>, total_file_size |-> 0, toc_offset |-> 0,
     section_start_offset |-> 0, num_sections |-> 0]

\* The header stage without the check of the sentinel at offset 26.
Header_read_m(b) ==
    IF /\ CanRead(b, 0, 32)
       /\ Bytes(b, 0, 8) \in Versions
       /\ U16(b, 8) = 0
       /\ U16(b, 10) = 1
       /\ Bytes(b, 28, 4) = LE32(0)
    THEN [ok |-> TRUE,
          header |-> [version |-> Bytes(b, 0, 8),
                      total_file_size |-> U32(b, 12),
                      toc_offset |-> U32(b, 16),
                      section_start_offset |-> U32(b, 20),
                      num_sections |-> U16(b, 24)]]
    ELSE [ok |-> FALSE, header |-> NoHeader]

\* The header stage of PriFile::read (lib.rs:35-51): [ok, header].
Header_read(b) ==
    IF /\ CanRead(b, 0, 32)
       /\ Bytes(b, 0, 8) \in Versions
       /\ U16(b, 8) = 0
       /\ U16(b, 10) = 1
       /\ U16(b, 26) = 65535
       /\ Bytes(b, 28, 4) = LE32(0)
    THEN [ok |-> TRUE,
          header |-> [version |-> Bytes(b, 0, 8),
                      total_file_size |-> U32(b, 12),
                      toc_offset |-> U32(b, 16),
                      section_start_offset |-> U32(b, 20),
                      num_sections |-> U16(b, 24)]]
    ELSE [ok |-> FALSE, header |-> NoHeader]

\* The footer stage of PriFile::read (lib.rs:52-56): "ok", "err" or "panic".
\* total_file_size as u64 - 16 below 16: a build with overflow checks panics;
\* one without wraps to a position near 2^64, where the read fails.
Footer_read(b, h, overflow_checks) ==
    IF h.total_file_size < 16
    THEN IF overflow_checks THEN "panic" ELSE "err"
    ELSE LET p == h.total_file_size - 16
         IN IF /\ CanRead(b, p, 16)
               /\ Bytes(b, p, 4) = FILE_FOOTER_MARKER
               /\ Bytes(b, p + 4, 4) = Bytes(b, 12, 4)
               /\ Bytes(b, p + 8, 8) = h.version
            THEN "ok" ELSE "err"

\* The table of contents stage of PriFile::read (lib.rs:57-61): [ok, toc].
Toc_read(b, h) ==
    IF CanRead(b, h.toc_offset, 32 * h.num_sections)
    THEN [ok |-> TRUE,
          toc |-> [i \in 1..h.num_sections |->
                      TocEntry_read(b, h.toc_offset + 32 * (i - 1))]]
    ELSE [ok |-> FALSE, toc |-> <<>>]

NoSection ==
    [section_qualifier |-> 0, flags |-> 0, section_flags |-> 0,
     data |-> [kind |-> "Unknown", identifier |-> <<>>, data |-> <<>>]]

\* The footer check without the comparison of the repeated length.
SectionFooter_ok_m(b, start, footer) ==
    /\ CanRead(b, footer, 8)
    /\ Bytes(b, footer, 4) = SECTION_FOOTER_MARKER

\* The footer check of Section::read (lib.rs:209-211) for the envelope at start.
SectionFooter_ok(b, start, footer) ==
    /\ CanRead(b, footer, 8)
    /\ Bytes(b, footer, 4) = SECTION_FOOTER_MARKER
    /\ Bytes(b, footer + 4, 4) = Bytes(b, start + 24, 4)

\* Section::read at position start: [status, section], status "ok", "err" or
\* "panic".  section_length - 16 - 24 below 40: a build with overflow checks
\* panics; one without wraps to a length near 2^32.
Section_read(b, start, overflow_checks) ==
    IF ~CanRead(b, start, 32) THEN [status |-> "err", section |-> NoSection]
    ELSE
    LET section_identifier_ == Bytes(b, start, 16)
        section_qualifier == U32(b, start + 16)
        flags == U16(b, start + 20)
        section_flags == U16(b, start + 22)
        section_length == U32(b, start + 24)
        length == IF section_length < 40 THEN Huge ELSE section_length - 40
        d == SectionData_read(section_identifier_, length, b, start + 32)
        footer == start + section_length - 8
    IN  IF Bytes(b, start + 28, 4) # LE32(0) THEN [status |-> "err", section |-> NoSection]
        ELSE IF section_length < 40 /\ overflow_checks
        THEN [status |-> "panic", section |-> NoSection]
        ELSE IF ~d.ok THEN [status |-> "err", section |-> NoSection]
        ELSE IF SectionFooter_ok(b, start, footer)
        THEN [status |-> "ok",
              section |-> [section_qualifier |-> section_qualifier,
                           flags |-> flags,
                           section_flags |-> section_flags,
                           data |-> d.data]]
        ELSE [status |-> "err", section |-> NoSection]

\* The position PriFile::read seeks to for a TOC entry (lib.rs:64-66).
SectionStart(h, entry) == h.section_start_offset + entry.section_offset

\* The section loop of PriFile::read (lib.rs:62-68) from entry i on.
RECURSIVE Sections_read(_, _, _, _, _, _)
Sections_read(b, h, toc, i, acc, overflow_checks) ==
    IF i > Len(toc) THEN [status |-> "ok", sections |-> acc]
    ELSE LET r == Section_read(b, SectionStart(h, toc[i]), overflow_checks)
         IN IF r.status # "ok" THEN [status |-> r.status, sections |-> <<>>]
            ELSE Sections_read(b, h, toc, i + 1, Append(acc, r.section), overflow_checks)

\* PriFile::read as a whole: [status, sections].
PriFile_read(b, overflow_checks) ==
    LET hr == Header_read(b)
        fr == Footer_read(b, hr.header, overflow_checks)
        tr == Toc_read(b, hr.header)
    IN  IF ~hr.ok THEN [status |-> "err", sections |-> <<>>]
        ELSE IF fr # "ok" THEN [status |-> fr, sections |-> <<>>]
        ELSE IF ~tr.ok THEN [status |-> "err", sections |-> <<>>]
        ELSE Sections_read(b, hr.header, tr.toc, 1, <<>>, overflow_checks)

\* add_section putting the section first.
add_section_m(secs, section) == <<section>> \o secs

\* PriFile::add_section
add_section(secs, section) == Append(secs, section)

\* PriFile::num_sections
num_sections(secs) == Len(secs)

\* PriFile::section: [some, section]
section(secs, index) ==
    IF index < Len(secs) THEN [some |-> TRUE, section |-> secs[index + 1]]
    ELSE [some |-> FALSE, section |-> NoSection]

\* ------------------------------------------------------------------ inputs

TEST_IDENTIFIER ==
    <<116, 101, 115, 116, 48, 48, 48, 48, 48, 48, 48, 48, 48, 48, 0, 0>>

Unknown(identifier, data) ==
    [kind |-> "Unknown", identifier |-> identifier, data |-> data]

\* An unknown section holding b"hello".
HelloSection ==
    [section_qualifier |-> 0, flags |-> 0, section_flags |-> 0,
     data |-> Unknown(TEST_IDENTIFIER, <<104, 101, 108, 108, 111>>)]

\* An unknown section with no payload whose two flag fields are 0xfade and 0xdef5.
FlagsSection ==
    [section_qualifier |-> 1, flags |-> 64222, section_flags |-> 57077,
     data |-> Unknown(TEST_IDENTIFIER, <<>>)]

\* A section of a known kind.
ItemSection ==
    [section_qualifier |-> 2, flags |-> 1, section_flags |-> 0,
     data |-> [kind |-> "DataItem", identifier |-> DataItem_IDENTIFIER, data |-> <<7>>]]

\* The sections the input files are generated from.
SectionPool == {HelloSection, FlagsSection, ItemSection}

\* The sections add_section is called with.
AddPool == {ItemSection}

\* The sequences of at most n different elements of S.
RECURSIVE SeqsUpTo(_, _)
SeqsUpTo(S, n) ==
    IF n = 0 THEN {<<>>}
    ELSE LET shorter == SeqsUpTo(S, n - 1)
         IN shorter \cup
            UNION {{Append(q, x) : x \in {y \in S : \A i \in 1..Len(q) : q[i] # y}} :
                      q \in {t \in shorter : Len(t) = n - 1}}

\* A well-formed file holding sections c, as the tool that produces PRI files
\* lays it out: the 32-byte header, the table of contents right after it, the
\* envelopes in order, the footer; every offset and length filled in.
ImagePayload(d) == IF d.kind = "Unknown" THEN d.data ELSE Codec_write(d.data)

ImageEnvelope(s) ==
    LET payload == ImagePayload(s.data)
    IN section_identifier(s.data) \o LE32(s.section_qualifier) \o LE16(s.flags)
       \o LE16(s.section_flags) \o LE32(40 + Len(payload)) \o LE32(0)
       \o payload \o SECTION_FOOTER_MARKER \o LE32(40 + Len(payload))

RECURSIVE ImageEnvelopes(_, _)
ImageEnvelopes(c, i) ==
    IF i > Len(c) THEN <<>> ELSE ImageEnvelope(c[i]) \o ImageEnvelopes(c, i + 1)

RECURSIVE ImageToc(_, _, _)
ImageToc(c, i, offset) ==
    IF i > Len(c) THEN <<>>
    ELSE LET length == Len(ImageEnvelope(c[i]))
         IN section_identifier(c[i].data) \o LE16(c[i].flags) \o LE16(c[i].section_flags)
            \o LE32(c[i].section_qualifier) \o LE32(offset) \o LE32(length)
            \o ImageToc(c, i + 1, offset + length)

Image(c) ==
    LET body == ImageToc(c, 1, 0) \o ImageEnvelopes(c, 1)
        total_file_size == 32 + Len(body) + 16
    IN MRM_PRI2 \o LE16(0) \o LE16(1) \o LE32(total_file_size) \o LE32(32)
       \o LE32(32 + 32 * Len(c)) \o LE16(Len(c)) \o LE16(65535) \o LE32(0)
       \o body \o FILE_FOOTER_MARKER \o LE32(total_file_size) \o MRM_PRI2

\* Stream b with the bytes at position p overwritten.
Overwrite(b, p, bytes) == Put([buf |-> b, pos |-> p], bytes).buf

\* Where envelope i of a file lies and how long it says it is, by the file's
\* own header and table of contents.
EnvelopeStart(b, i) == U32(b, 20) + U32(b, U32(b, 16) + 32 * (i - 1) + 24)
EnvelopeLength(b, i) == U32(b, EnvelopeStart(b, i) + 24)
Envelopes(b) ==
    IF CanRead(b, 0, 32) /\ CanRead(b, U32(b, 16), 32 * U16(b, 24))
    THEN {i \in 1..U16(b, 24) : /\ CanRead(b, EnvelopeStart(b, i), 32)
                                /\ EnvelopeLength(b, i) >= 40
                                /\ CanRead(b, EnvelopeStart(b, i), EnvelopeLength(b, i))}
    ELSE {}

\* The single-field changes the environment makes to a file of at least a
\* header and a footer: [kind, pos, bytes].
HeaderPokes(b) ==
    {[kind |-> "reserved", pos |-> 8, bytes |-> LE16(1)],
     [kind |-> "reserved", pos |-> 10, bytes |-> LE16(0)],
     [kind |-> "reserved", pos |-> 26, bytes |-> LE16(0)],
     [kind |-> "reserved", pos |-> 28, bytes |-> LE32(1)],
     [kind |-> "magic", pos |-> 0, bytes |-> MRM_PRI0],
     [kind |-> "magic", pos |-> 0, bytes |-> <<109, 114, 109, 95, 112, 114, 105, 51>>],
     [kind |-> "size", pos |-> 12, bytes |-> LE32(0)],
     [kind |-> "size", pos |-> 12, bytes |-> LE32(Len(b) + 1)],
     [kind |-> "size", pos |-> 12, bytes |-> LE32(Len(b) - 1)],
     [kind |-> "count", pos |-> 24, bytes |-> LE16(U16(b, 24) + 1)]}
    \cup {[kind |-> "count", pos |-> 24, bytes |-> LE16(n - 1)] :
             n \in {U16(b, 24)} \ {0}}

FooterPokes(b) ==
    {[kind |-> "footer", pos |-> Len(b) - 16, bytes |-> SECTION_FOOTER_MARKER],
     [kind |-> "footer", pos |-> Len(b) - 12, bytes |-> LE32(Len(b) + 1)],
     [kind |-> "footer", pos |-> Len(b) - 8, bytes |-> MRM_PRIF]}

EnvelopePokes(b) ==
    UNION {LET s == EnvelopeStart(b, i)
               l == EnvelopeLength(b, i)
           IN {[kind |-> "reserved", pos |-> s + 28, bytes |-> LE32(1)],
               [kind |-> "length", pos |-> s + 24, bytes |-> LE32(28)],
               [kind |-> "length", pos |-> s + 24, bytes |-> LE32(l + 1)],
               [kind |-> "section_footer", pos |-> s + l - 8, bytes |-> FILE_FOOTER_MARKER],
               [kind |-> "section_footer", pos |-> s + l - 4, bytes |-> LE32(l + 1)]}
           : i \in Envelopes(b)}

Pokes(b) ==
    IF Len(b) >= 48 THEN HeaderPokes(b) \cup FooterPokes(b) \cup EnvelopePokes(b) ELSE {}

\* A file of another recognised version: the tag at byte 0 and in the footer.
WithVersion(b, v) == Overwrite(Overwrite(b, 0, v), Len(b) - 8, v)

\* ------------------------------------------------------------------- state

VARIABLES
    overflow_checks,  \* whether the build panics on integer overflow
    file,             \* the stream PriFile::read is called on
    pokes,            \* the kinds of the changes the environment made to it
    clean,            \* what read returns on the file as it was before the last change
    rstate,           \* the stage the running PriFile::read has reached
    header,           \* read's locals: the header fields
    toc,              \* read's local toc
    sections,         \* read's local sections
    pri,              \* the container read returned: [ok, sections]
    gen,              \* 0: file is the input file; 1: file is what write produced
    orig,             \* the sections write was called on to produce file (gen 1)
    base,             \* num_sections() when read returned
    added,            \* the sections add_section was called with since, in order
    wstate,           \* the stage the running PriFile::write has reached
    windex,           \* write's loop index: the section bodies written
    sink,             \* the sink of the write: its bytes and its cursor
    last,             \* the bytes the write before this one left in its sink
    writes,           \* write calls completed
    dirty,            \* add_section was called since the last write completed
    sections_len      \* self.sections.len()

vars ==
    <<overflow_checks, file, pokes, clean, rstate, header, toc, sections, pri,
      gen, orig, base, added, wstate, windex, sink, last, writes, dirty, sections_len>>

reader == <<header, toc, sections>>
writer == <<wstate, windex, sink, last, writes>>
container == <<pri, base, added, writer, dirty, sections_len>>

NoPri == [ok |-> FALSE, sections |-> <<>>]

Init ==
    /\ overflow_checks \in BOOLEAN
    /\ \E c \in SeqsUpTo(SectionPool, MaxSections) : file = Image(c)
    /\ pokes = <<>>
    /\ clean = "none"
    /\ rstate = "Start"
    /\ header = NoHeader
    /\ toc = <<>>
    /\ sections = <<>>
    /\ pri = NoPri
    /\ gen = 0
    /\ orig = <<>>
    /\ base = 0
    /\ added = <<>>
    /\ wstate = "Idle"
    /\ windex = 0
    /\ sink = EmptySink
    /\ last = <<>>
    /\ writes = 0
    /\ dirty = FALSE
    /\ sections_len = 0

\* ------------------------------------------------------------- environment

\* The environment changes a file that read accepts as it stands, before a read
\* of it starts.
CanPoke ==
    /\ rstate = "Start" /\ gen = 0 /\ Len(pokes) < MaxPokes
    /\ PriFile_read(file, overflow_checks).status = "ok"

\* One field of the input file is overwritten.
EnvPoke ==
    /\ CanPoke
    /\ \E p \in Pokes(file) :
          /\ file' = Overwrite(file, p.pos, p.bytes)
          /\ pokes' = Append(pokes, p.kind)
    /\ clean' = PriFile_read(file, overflow_checks).status
    /\ UNCHANGED <<overflow_checks, rstate, reader, gen, orig, container>>

\* The input file becomes a file of another recognised version.
EnvSetVersion ==
    /\ CanPoke
    /\ Len(file) >= 48
    /\ \E v \in Versions \ {Bytes(file, 0, 8)} : file' = WithVersion(file, v)
    /\ pokes' = Append(pokes, "version")
    /\ clean' = PriFile_read(file, overflow_checks).status
    /\ UNCHANGED <<overflow_checks, rstate, reader, gen, orig, container>>

\* The final 16 bytes of the input file are stripped.
EnvTruncate ==
    /\ CanPoke
    /\ Len(file) >= 16
    /\ file' = SubSeq(file, 1, Len(file) - 16)
    /\ pokes' = Append(pokes, "truncate")
    /\ clean' = PriFile_read(file, overflow_checks).status
    /\ UNCHANGED <<overflow_checks, rstate, reader, gen, orig, container>>

\* A byte is appended to the input file.
EnvAppend ==
    /\ CanPoke
    /\ file' = Append(file, 0)
    /\ pokes' = Append(pokes, "append")
    /\ clean' = PriFile_read(file, overflow_checks).status
    /\ UNCHANGED <<overflow_checks, rstate, reader, gen, orig, container>>

\* Two neighbouring entries of the table of contents change places: the file
\* lists its sections in another order than they lie in.
EnvSwapToc ==
    /\ CanPoke
    /\ \E i \in 1..(U16(file, 24) - 1) :
          LET p == U32(file, 16) + 32 * (i - 1)
          IN /\ CanRead(file, p, 64)
             /\ file' = Overwrite(file, p, Bytes(file, p + 32, 32) \o Bytes(file, p, 32))
    /\ pokes' = Append(pokes, "toc_order")
    /\ clean' = PriFile_read(file, overflow_checks).status
    /\ UNCHANGED <<overflow_checks, rstate, reader, gen, orig, container>>

\* The count byte that opens the payload of a section of a known kind is
\* lowered by one: its codec will consume one byte less than the envelope holds.
EnvShortenPayload ==
    /\ CanPoke
    /\ \E i \in Envelopes(file) :
          LET p == EnvelopeStart(file, i) + 32
          IN /\ Bytes(file, EnvelopeStart(file, i), 16) \in KnownTags
             /\ EnvelopeLength(file, i) > 40
             /\ file[p + 1] > 0
             /\ file' = Overwrite(file, p, <<file[p + 1] - 1>>)
    /\ pokes' = Append(pokes, "payload")
    /\ clean' = PriFile_read(file, overflow_checks).status
    /\ UNCHANGED <<overflow_checks, rstate, reader, gen, orig, container>>

\* ---------------------------------------------------- PriFile::read, staged

\* lib.rs:35-51
ReadHeader ==
    /\ rstate = "Start"
    /\ LET r == Header_read(file)
       IN /\ rstate' = IF r.ok THEN "HeaderValidated" ELSE "Failed"
          /\ header' = r.header
    /\ UNCHANGED <<overflow_checks, file, pokes, clean, toc, sections, gen, orig, container>>

\* lib.rs:52-56
ReadFooter ==
    /\ rstate = "HeaderValidated"
    /\ LET r == Footer_read(file, header, overflow_checks)
       IN rstate' = CASE r = "ok" -> "FooterValidated"
                      [] r = "err" -> "Failed"
                      [] r = "panic" -> "Panicked"
    /\ UNCHANGED <<overflow_checks, file, pokes, clean, reader, gen, orig, container>>

\* lib.rs:57-61
ReadToc ==
    /\ rstate = "FooterValidated"
    /\ LET r == Toc_read(file, header)
       IN /\ rstate' = IF r.ok THEN "TocDecoded" ELSE "Failed"
          /\ toc' = r.toc
    /\ UNCHANGED <<overflow_checks, file, pokes, clean, header, sections, gen, orig, container>>

\* One turn of the loop of lib.rs:63-68.
ReadSection ==
    /\ rstate = "TocDecoded"
    /\ Len(sections) < Len(toc)
    /\ LET entry == toc[Len(sections) + 1]
           r == Section_read(file, SectionStart(header, entry), overflow_checks)
       IN /\ rstate' = CASE r.status = "ok" -> "TocDecoded"
                         [] r.status = "err" -> "Failed"
                         [] r.status = "panic" -> "Panicked"
          /\ sections' = IF r.status = "ok" THEN Append(sections, r.section) ELSE sections
    /\ UNCHANGED <<overflow_checks, file, pokes, clean, header, toc, gen, orig, container>>

\* lib.rs:69: Ok(Self { sections })
ReadFinish ==
    /\ rstate = "TocDecoded"
    /\ Len(sections) = Len(toc)
    /\ rstate' = "SectionsDecoded"
    /\ pri' = [ok |-> TRUE, sections |-> sections]
    /\ base' = num_sections(sections)
    /\ sections_len' = Len(sections)
    /\ UNCHANGED <<overflow_checks, file, pokes, clean, reader, gen, orig, added, writer,
                   dirty>>

\* ------------------------------------------------ the container, once read

\* pri.add_section(s)
AddSection ==
    /\ pri.ok /\ gen = 0
    /\ wstate \in {"Idle", "Written"}
    /\ Len(added) < MaxAdds
    /\ \E s \in AddPool :
          /\ pri' = [pri EXCEPT !.sections = add_section(pri.sections, s)]
          /\ added' = Append(added, s)
    /\ sections_len' = sections_len + 1
    /\ dirty' = TRUE
    /\ UNCHANGED <<overflow_checks, file, pokes, clean, rstate, reader, gen, orig, base,
                   writer>>

\* ------------------------------------------- PriFile::write, staged

\* pri.write(&mut Cursor::new(&mut vec![])) up to the header (lib.rs:77-87).
WriteHeader ==
    /\ pri.ok /\ gen = 0
    /\ wstate \in {"Idle", "Written"}
    /\ writes < MaxWrites
    /\ wstate' = "HeaderWritten"
    /\ windex' = 0
    /\ sink' = Put(EmptySink, Write_header(Len(pri.sections)))
    /\ last' = sink.buf
    /\ UNCHANGED <<overflow_checks, file, pokes, clean, rstate, reader, pri, gen, orig,
                   base, added, writes, dirty, sections_len>>

\* lib.rs:88-98
WriteToc ==
    /\ wstate = "HeaderWritten"
    /\ wstate' = "TocWritten"
    /\ sink' = Write_toc(sink, pri.sections, 1)
    /\ UNCHANGED <<overflow_checks, file, pokes, clean, rstate, reader, pri, gen, orig,
                   base, added, windex, last, writes, dirty, sections_len>>

\* One turn of the loop of lib.rs:99-109.
WriteSection ==
    /\ wstate = "TocWritten"
    /\ windex < Len(pri.sections)
    /\ sink' = Write_section(sink, pri.sections, windex)
    /\ windex' = windex + 1
    /\ UNCHANGED <<overflow_checks, file, pokes, clean, rstate, reader, pri, gen, orig,
                   base, added, wstate, last, writes, dirty, sections_len>>

\* lib.rs:110-117
WriteFooter ==
    /\ wstate = "TocWritten"
    /\ windex = Len(pri.sections)
    /\ wstate' = "Written"
    /\ sink' = Write_footer(sink)
    /\ writes' = writes + 1
    /\ dirty' = FALSE
    /\ UNCHANGED <<overflow_checks, file, pokes, clean, rstate, reader, pri, gen, orig,
                   base, added, windex, last, sections_len>>

\* PriFile::read(&mut Cursor::new(&buf)) on what write produced (lib.rs:335).
Reopen ==
    /\ pri.ok /\ gen = 0
    /\ wstate = "Written" /\ ~dirty
    /\ gen' = 1
    /\ file' = sink.buf
    /\ orig' = pri.sections
    /\ rstate' = "Start"
    /\ header' = NoHeader
    /\ toc' = <<>>
    /\ sections' = <<>>
    /\ pri' = NoPri
    /\ UNCHANGED <<overflow_checks, pokes, clean, base, added, writer, dirty,
                   sections_len>>

Next ==
    \/ EnvPoke \/ EnvSetVersion \/ EnvTruncate \/ EnvAppend \/ EnvSwapToc
    \/ EnvShortenPayload
    \/ ReadHeader \/ ReadFooter \/ ReadToc \/ ReadSection \/ ReadFinish
    \/ AddSection \/ WriteHeader \/ WriteToc \/ WriteSection \/ WriteFooter \/ Reopen

Spec == Init /\ [][Next]_vars

\* ------------------------------------------------------------ consistency

Stages ==
    {"Start", "HeaderValidated", "FooterValidated", "TocDecoded", "SectionsDecoded",
     "Failed", "Panicked"}

Last(q) == q[Len(q)]

\* The staged read ends as PriFile::read as a whole does, and no u32 it keeps
\* was read as Huge.
ReadAgrees ==
    /\ rstate \in Stages
    /\ rstate = "SectionsDecoded" =>
          /\ PriFile_read(file, overflow_checks) = [status |-> "ok", sections |-> sections]
          /\ \A i \in 1..Len(sections) : sections[i].section_qualifier < Huge
    /\ rstate = "Failed" => PriFile_read(file, overflow_checks).status = "err"
    /\ rstate = "Panicked" => PriFile_read(file, overflow_checks).status = "panic"
    /\ pri.ok => sections_len = Len(pri.sections)

\* ------------------------------------------------------------------ claims

\* C1  Round-trip: a container that read returned, written into an empty sink
\* and read back, is read successfully and yields the same sections in the
\* same order (qualifier, flags, section_flags and data).
C1_RoundTrip ==
    gen = 1 =>
        /\ rstate \notin {"Failed", "Panicked"}
        /\ Len(sections) <= Len(orig)
        /\ \A i \in 1..Len(sections) : sections[i] = orig[i]
        /\ rstate = "SectionsDecoded" => pri = [ok |-> TRUE, sections |-> orig]

C1_Witness ==
    /\ gen = 1 /\ added = <<>> /\ rstate = "SectionsDecoded"
    /\ pri.ok /\ Len(pri.sections) = 2
    /\ pri.sections[1].data.kind = "Unknown" /\ pri.sections[1].data.data # <<>>
    /\ pri.sections[2].data.kind = "DataItem"

\* C2  Opaque preservation: a section whose identifier is none of the known
\* tags is decoded to an Unknown value holding that identifier and exactly the
\* section_length - 40 declared payload bytes, and encoding that value emits
\* those bytes again under the same identifier.
C2_OpaquePreservation ==
    pri.ok =>
        \A i \in 1..Len(toc) :
            LET start == SectionStart(header, toc[i])
                identifier == Bytes(file, start, 16)
                section_length == U32(file, start + 24)
                payload == Bytes(file, start + 32, section_length - 40)
                d == pri.sections[i].data
            IN identifier \notin KnownTags =>
                  /\ d = Unknown(identifier, payload)
                  /\ Len(d.data) = section_length - 40
                  /\ SectionData_write(EmptySink, d).buf = payload
                  /\ section_identifier(d) = identifier

\* C3  Version normalization: whatever recognised version tag the container was
\* parsed from, write emits mrm_pri2, the newest one, at byte 0 and in the last
\* 8 bytes of the footer.
C3_VersionNormalization ==
    (wstate = "Written" /\ gen = 0 /\ header.version \in Versions) =>
        /\ Bytes(sink.buf, 0, 8) = MRM_PRI2
        /\ Bytes(sink.buf, Len(sink.buf) - 8, 8) = MRM_PRI2

C3_Witness ==
    /\ wstate = "Written" /\ gen = 0 /\ header.version = MRM_PRI0
    /\ Bytes(file, 0, 8) = MRM_PRI0 /\ Bytes(file, Len(file) - 8, 8) = MRM_PRI0

\* C4  Footer consistency: whenever read succeeds, the header's
\* total_file_size, the footer's repeated total_file_size and the length of the
\* stream are all equal, the footer marker is 0xdefffade and the footer's
\* version tag is the header's.
C4_FooterConsistency ==
    (rstate = "SectionsDecoded" /\ gen = 0) =>
        /\ U32(file, 12) = Len(file)
        /\ Bytes(file, Len(file) - 12, 4) = Bytes(file, 12, 4)
        /\ Bytes(file, Len(file) - 16, 4) = FILE_FOOTER_MARKER
        /\ Bytes(file, Len(file) - 8, 8) = Bytes(file, 0, 8)

\* C5  Section redundancy check: read returns a container only if, for every
\* section located through the TOC, the marker in the section's footer is
\* 0xdef5fade and the length repeated there is the length in its header.
C5_SectionRedundancy ==
    (pri.ok \/ rstate = "SectionsDecoded") =>
        \A i \in 1..Len(toc) :
            LET start == SectionStart(header, toc[i])
                footer == start + U32(file, start + 24) - 8
            IN /\ CanRead(file, footer, 8)
               /\ Bytes(file, footer, 4) = SECTION_FOOTER_MARKER
               /\ Bytes(file, footer + 4, 4) = Bytes(file, start + 24, 4)

C5_Witness ==
    /\ pokes = <<"section_footer">> /\ clean = "ok"
    /\ rstate = "Failed" /\ ~pri.ok
    /\ Len(toc) = 2 /\ Len(sections) = 1

\* C6  Reserved-field strictness: after a single reserved constant of a file
\* that read accepts is changed (the header's u16 at 8, 10 or 26, its u32 at 28,
\* or the reserved u32 of a section envelope), read does not succeed on it.
C6_ReservedStrictness ==
    (gen = 0 /\ pokes # <<>> /\ Last(pokes) = "reserved" /\ clean = "ok") =>
        /\ rstate \in {"Start", "HeaderValidated", "FooterValidated", "TocDecoded", "Failed"}
        /\ rstate = "TocDecoded" => Len(sections) < Len(toc)
        /\ ~pri.ok

C6_Witness ==
    /\ gen = 0 /\ pokes = <<"reserved">> /\ clean = "ok"
    /\ rstate = "Failed" /\ Len(toc) = 2 /\ Len(sections) = 1

\* C7  All-or-nothing read: read never panics, and hands out a container only
\* when every stage has passed.
C7_AllOrNothing ==
    /\ rstate # "Panicked"
    /\ rstate \in {"Failed", "Panicked"} => ~pri.ok

\* C8  Section-count agreement: after a successful read num_sections() is the
\* header's num_sections and the number of TOC entries; and the num_sections
\* field write emits is the number of sections it writes.
C8_SectionCount ==
    /\ rstate = "SectionsDecoded" =>
          /\ num_sections(sections) = header.num_sections
          /\ num_sections(sections) = Len(toc)
    /\ wstate = "Written" => U16(sink.buf, 24) = windex
    /\ (wstate = "Written" /\ ~dirty) => windex = sections_len

\* C9  In-memory model: num_sections() is the count read plus the add_section
\* calls made, section(i) is the i-th section in insertion order and absent
\* from num_sections() on; a write leaves the sections as they are, and a
\* second write with no add_section in between emits the same bytes.
C9_Sections ==
    (pri.ok /\ gen = 0) =>
        /\ num_sections(pri.sections) = base + Len(added)
        /\ base = Len(sections)
        /\ \A i \in 0..(base - 1) :
              section(pri.sections, i) = [some |-> TRUE, section |-> sections[i + 1]]
        /\ \A i \in 0..(Len(added) - 1) :
              section(pri.sections, base + i) = [some |-> TRUE, section |-> added[i + 1]]
        /\ \A i \in num_sections(pri.sections)..(num_sections(pri.sections) + 1) :
              ~section(pri.sections, i).some

C9_WriteStep ==
    /\ (wstate' # wstate \/ windex' # windex) => pri' = pri
    /\ (writes' = writes + 1 /\ writes > 0 /\ ~dirty) => sink'.buf = last

C9_InMemoryModel == [](C9_Sections) /\ [][C9_WriteStep]_vars

C9_Witness ==
    /\ pri.ok /\ gen = 0 /\ writes = 2 /\ wstate = "Written" /\ ~dirty
    /\ base = 1 /\ Len(added) = 1 /\ added[1] # sections[1]

\* C10  File-size backpatch: after write into an empty sink the u32 at offset
\* 12 is the u32 at length - 12, and both are the length of the stream;
\* toc_offset is 30 and section_start_offset is 30 + 32 * num_sections.
C10_SizeBackpatch ==
    (pri.ok /\ gen = 0 /\ wstate = "Written" /\ ~dirty) =>
        /\ Bytes(sink.buf, 12, 4) = Bytes(sink.buf, Len(sink.buf) - 12, 4)
        /\ U32(sink.buf, 12) = Len(sink.buf)
        /\ U32(sink.buf, 16) = 30
        /\ U32(sink.buf, 20) = 30 + 32 * num_sections(pri.sections)

C10_Witness ==
    /\ pri.ok /\ gen = 0 /\ wstate = "Written" /\ ~dirty
    /\ num_sections(pri.sections) = 3 /\ Len(sink.buf) > 200

\* The payload bytes the codec of section s writes.
PayloadLength(s) == Len(SectionData_write(EmptySink, s.data).buf)

\* Where write's cursor stands when it starts the body of section i (from 0):
\* after the header, the entries and the envelopes of the sections before.
RECURSIVE BodyStart(_, _)
BodyStart(secs, i) ==
    IF i = 0 THEN Len(Write_header(Len(secs))) + 32 * Len(secs)
    ELSE BodyStart(secs, i - 1) + 40 + PayloadLength(secs[i])

\* The cursor between two turns of the section loop is at the end of the stream,
\* where the next envelope starts.
C11_Contiguous ==
    wstate = "TocWritten" =>
        /\ sink.pos = Len(sink.buf)
        /\ sink.pos = BodyStart(pri.sections, windex)

\* The offset and the length of the entry at toc_offset + 32 * i are those of
\* the envelope of section i, whose header and footer repeat the length.
C11_OffsetLength ==
    (pri.ok /\ gen = 0 /\ wstate = "Written" /\ ~dirty) =>
        \A i \in 0..(Len(pri.sections) - 1) :
            LET entry == TocEntry_read(sink.buf, U32(sink.buf, 16) + 32 * i)
                start == BodyStart(pri.sections, i)
                length == 40 + PayloadLength(pri.sections[i + 1])
            IN /\ entry.section_offset = start - U32(sink.buf, 20)
               /\ entry.section_length = length
               /\ U32(sink.buf, start + 24) = length
               /\ Bytes(sink.buf, start + length - 8, 8) = SECTION_FOOTER_MARKER \o LE32(length)

\* The entry at toc_offset + 32 * i carries the identifier, flags, section_flags
\* and qualifier of section i.
C11_EntryFields ==
    (pri.ok /\ gen = 0 /\ wstate = "Written" /\ ~dirty) =>
        \A i \in 0..(Len(pri.sections) - 1) :
            LET entry == TocEntry_read(sink.buf, U32(sink.buf, 16) + 32 * i)
                s == pri.sections[i + 1]
            IN /\ entry.section_identifier = section_identifier(s.data)
               /\ entry.flags = s.flags
               /\ entry.section_flags = s.section_flags
               /\ entry.section_qualifier = s.section_qualifier

\* C11  TOC and section length backpatch: after write completes, the entry at
\* toc_offset + 32 * i carries section i's identifier, flags, section_flags and
\* qualifier, its section_offset is the start of envelope i minus
\* section_start_offset, and its section_length is the length in the envelope's
\* header and footer, 40 plus the payload bytes written; after each patch the
\* cursor is back at the end of section i, so the envelopes are contiguous.
C11_TocBackpatch == C11_EntryFields /\ C11_OffsetLength /\ C11_Contiguous

\* The stage order of one read.
StageOrder ==
    {<<"Start", "HeaderValidated">>, <<"HeaderValidated", "FooterValidated">>,
     <<"FooterValidated", "TocDecoded">>, <<"TocDecoded", "SectionsDecoded">>}

\* The stages a check can fail in.
Running == {"Start", "HeaderValidated", "FooterValidated", "TocDecoded"}

\* What read holds at each stage: nothing of a stage before the stage before it
\* has passed, the sections in the order of the table of contents.
C12_Progress ==
    /\ rstate = "Start" => header = NoHeader
    /\ rstate \in {"Start", "HeaderValidated"} => toc = <<>>
    /\ header # NoHeader => Header_read(file) = [ok |-> TRUE, header |-> header]
    /\ (rstate \in {"FooterValidated", "TocDecoded", "SectionsDecoded"} \/ toc # <<>>) =>
          /\ header # NoHeader
          /\ Footer_read(file, header, overflow_checks) = "ok"
    /\ (rstate \in {"TocDecoded", "SectionsDecoded"} \/ sections # <<>>) =>
          Toc_read(file, header) = [ok |-> TRUE, toc |-> toc]
    /\ Len(sections) <= Len(toc)
    /\ \A i \in 1..Len(sections) :
          Section_read(file, SectionStart(header, toc[i]), overflow_checks)
              = [status |-> "ok", section |-> sections[i]]
    /\ rstate = "SectionsDecoded" => Len(sections) = Len(toc)

\* A read that failed stopped at the first check violated.
C12_FirstFailure ==
    rstate = "Failed" =>
        /\ ~pri.ok
        /\ \/ header = NoHeader /\ ~Header_read(file).ok
           \/ /\ header # NoHeader /\ toc = <<>> /\ sections = <<>>
              /\ \/ Footer_read(file, header, overflow_checks) = "err"
                 \/ /\ Footer_read(file, header, overflow_checks) = "ok"
                    /\ ~Toc_read(file, header).ok
           \/ /\ Len(sections) < Len(toc)
              /\ Section_read(file, SectionStart(header, toc[Len(sections) + 1]),
                              overflow_checks).status = "err"

\* A step of one read moves one stage on, stays in the section loop with one
\* more section, or moves to Failed; Failed and SectionsDecoded are left only
\* by the start of another read.
C12_Step ==
    /\ rstate' # rstate =>
          \/ <<rstate, rstate'>> \in StageOrder
          \/ rstate \in Running /\ rstate' = "Failed"
          \/ rstate = "SectionsDecoded" /\ rstate' = "Start" /\ gen' = gen + 1
    /\ (rstate' = rstate /\ sections' # sections) =>
          /\ rstate = "TocDecoded"
          /\ Len(sections') = Len(sections) + 1

\* C12  Parse ordering: one read proceeds Start -> HeaderValidated ->
\* FooterValidated -> TocDecoded -> SectionsDecoded with no stage skipped: the
\* footer is validated before any TOC entry is read, all TOC entries are decoded
\* before any section is, sections are decoded in TOC order whatever their
\* order in the file, and the first violated check moves to Failed with no
\* later stage executed.
C12_ParseOrdering == [](C12_Progress /\ C12_FirstFailure) /\ [][C12_Step]_vars

\* The same with the one step more a build with overflow checks takes: out of
\* the footer stage or the section loop into a panic.
C12_StepOrPanic ==
    \/ C12_Step
    \/ rstate \in {"HeaderValidated", "TocDecoded"} /\ rstate' = "Panicked"

C12_OrderingOrPanic == [](C12_Progress /\ C12_FirstFailure) /\ [][C12_StepOrPanic]_vars

\* The bytes the codec SectionData::read selects consumes for the envelope at
\* start: a known kind's codec its count byte and body, the opaque one what it
\* took.
Consumed(b, start) ==
    LET identifier == Bytes(b, start, 16)
        section_length == U32(b, start + 24)
        length == IF section_length < 40 THEN Huge ELSE section_length - 40
    IN IF identifier \in KnownTags
       THEN Codec_read(b, start + 32).consumed
       ELSE Len(UnknownSection_read(identifier, length, b, start + 32).data)

\* C13  Payload-consumption check: read returns a container only if, for every
\* section, the codec the dispatcher selected consumed exactly the declared
\* payload length, section_length - 40; a codec consuming another number of
\* bytes makes read fail.  Stated for the sections that declare a payload
\* length, those of a section_length of 40 or more.
C13_PayloadConsumption ==
    (pri.ok \/ rstate = "SectionsDecoded") =>
        \A i \in 1..Len(toc) :
            LET start == SectionStart(header, toc[i])
                section_length == U32(file, start + 24)
            IN section_length >= 40 => Consumed(file, start) = section_length - 40

\* --------------------------------------- the container as its length alone

\* A container of up to MaxLen sections, kept as sections.len() alone: what
\* write emits in the header depends on the sections through their number only.
InitLen ==
    /\ overflow_checks = FALSE
    /\ file = <<>>
    /\ pokes = <<>>
    /\ clean = "none"
    /\ rstate = "Start"
    /\ header = NoHeader
    /\ toc = <<>>
    /\ sections = <<>>
    /\ pri = NoPri
    /\ gen = 0
    /\ orig = <<>>
    /\ base = 0
    /\ added = <<>>
    /\ wstate = "Idle"
    /\ windex = 0
    /\ sink = EmptySink
    /\ last = <<>>
    /\ writes = 0
    /\ dirty = FALSE
    /\ sections_len \in 0..(MaxLen - 1)

LenAddSection ==
    /\ wstate = "Idle"
    /\ sections_len < MaxLen
    /\ sections_len' = sections_len + 1
    /\ dirty' = TRUE
    /\ UNCHANGED <<overflow_checks, file, pokes, clean, rstate, reader, pri, gen, orig,
                   base, added, writer>>

\* write: the header (lib.rs:77-87), then an entry (88-98) and a body (99-109)
\* for each of the sections_len sections, counted in windex, and the footer.
LenWrite ==
    /\ wstate = "Idle"
    /\ wstate' = "Written"
    /\ sink' = Put(EmptySink, Write_header(sections_len))
    /\ windex' = sections_len
    /\ writes' = 1
    /\ dirty' = FALSE
    /\ UNCHANGED <<overflow_checks, file, pokes, clean, rstate, reader, pri, gen, orig,
                   base, added, last, sections_len>>

NextLen == LenAddSection \/ LenWrite

SpecLen == InitLen /\ [][NextLen]_vars

====
